---- MODULE Spec2Model ----
(***************************************************************************)
(* bedfragment_ds (src/src/main.rs): depth equalisation of a batch of      *)
(* fragment files.  Three specifications share this module:                *)
(*   Spec        the run: startup, QC, the per-file tasks of both modes,   *)
(*               the files they create and remove, the exit status;       *)
(*   SpecQC      mean / std_dev / cutoff / partition on lists of depths;   *)
(*   SpecSample  reservoir_sample and the retain+write of one file;        *)
(*   SpecSort    the same steps on files whose lines differ in rank and    *)
(*               start coordinate;                                         *)
(*   SpecChrom   parse_chrom_order on sizes sources;                       *)
(*   SpecFraction  the -s argument of samtools view for a target and a     *)
(*               depth;                                                    *)
(*   SpecFair    Spec with the scheduling of the worker pool.              *)
(***************************************************************************)
EXTENDS Integers, Sequences, FiniteSets, TLC

\* ------------------------------------------------------------------ bounds
MaxFiles == 2          \* files on the command line (Spec)
MaxQCFiles == 4        \* depths in a QC list (SpecQC)
MaxLines == 4          \* lines of a fragment file, header included (SpecSample)
MaxTarget == 3         \* min_count handed to reservoir_sample (SpecSample)
MaxSizesLines == 4     \* lines of the chrom_sizes file (SpecChrom)
MaxCount == 13         \* read count of a bam file (SpecFraction)

VARIABLES
    \* ---- Spec: the command line (Args) and the input files
    input_type,        \* args.input_type: "bed" | "bam"
    files,             \* args.files: sequence of file names
    keep_bedgraph,     \* args.keep_bedgraph
    keep_tmp_bam,      \* args.keep_tmp_bam
    exclude_sd,        \* args.exclude_sd as a rational <<num, den>>, den > 0
    depth,             \* depth[i]: what counting files[i] yields
    \* ---- Spec: main
    phase,             \* "start" | "tasks" | "exited"
    exitCode,          \* -1 while running; 0, 1 (exit(1), Err) or 101 (panic)
    filtered,          \* indices of the files that passed QC
    excluded,          \* indices of the files reported as excluded
    min_count,         \* min_frag_count / min_count, -1 before QC
    fatal,             \* why the run ended early, "none" otherwise
    \* ---- Spec: the per-file closures of par_iter().for_each
    pc,                \* pc[i]: the stage task i is about to run, or how it ended
    report,            \* report[i]: message of pb.finish_with_message, "none" before
    trace,             \* trace[i]: the stages invoked so far, <<stage, outcome>>
    written,           \* written[i]: paths task i created
    removeTried,       \* removeTried[i]: paths task i called remove_file on
    disk,              \* paths of artifacts present on disk
    \* ---- SpecQC
    qcCounts,          \* counts_only
    qcK,               \* exclude_sd
    qcDone,            \* FALSE before the QC block ran
    qcFiltered,        \* indices kept by the filter
    qcExcluded,        \* indices reported as excluded
    qcMin,             \* min over filtered, -1 if none
    qcCutoffZero,      \* the cutoff printed is 0
    \* ---- SpecSample
    sFile,             \* the file: sequence of line kinds, header first
    sTarget,           \* min_count
    sSample,           \* the reservoir: positions (1-based) of data lines
    sPhase,            \* "start" | "sampled" | "written" | "panicked"
    sOut,              \* the lines written to out_bed: 0 is the header
    sHeader,           \* header as reservoir_sample returns it
    \* ---- SpecChrom
    sizesLines,        \* the lines of the chrom_sizes file
    chrom_order,       \* the map parse_chrom_order returns
    chromDone,         \* FALSE before parse_chrom_order ran
    \* ---- SpecFraction
    fMin,              \* min_count of the bam task
    fCount,            \* sample_count of the bam task
    seed_fraction,     \* the digits that follow "42." in seed_fraction
    fDone              \* FALSE before seed_fraction is built

runVars == <<input_type, files, keep_bedgraph, keep_tmp_bam, exclude_sd, depth,
             phase, exitCode, filtered, excluded, min_count, fatal,
             pc, report, trace, written, removeTried, disk>>
qcVars == <<qcCounts, qcK, qcDone, qcFiltered, qcExcluded, qcMin, qcCutoffZero>>
sampleVars == <<sFile, sTarget, sSample, sPhase, sOut, sHeader>>
chromVars == <<sizesLines, chrom_order, chromDone>>
fracVars == <<fMin, fCount, seed_fraction, fDone>>
vars == <<runVars, qcVars, sampleVars, chromVars, fracVars>>

\* ----------------------------------------------------------------- helpers
RECURSIVE SumSeq(_)
SumSeq(s) == IF s = <<>> THEN 0 ELSE Head(s) + SumSeq(Tail(s))

MaxOf(S) == CHOOSE x \in S : \A y \in S : y <= x
MinOf(S) == CHOOSE x \in S : \A y \in S : x <= y

Range(s) == {s[i] : i \in DOMAIN s}

\* ------------------------------------------------------- QC (lines 55..65)
\* f64 values are kept exact: a rational is <<num, den>> with den > 0, and a
\* standard deviation is kept as its square.

\* fn mean: sum / len
mean(values) == <<SumSeq(values), Len(values)>>

\* (mutant: the sample variance, divisor len - 1)
std_dev_sample(values, m) ==
    <<SumSeq([i \in DOMAIN values |->
                (values[i] * m[2] - m[1]) * (values[i] * m[2] - m[1])]),
      m[2] * m[2] * (Len(values) - 1)>>

\* fn std_dev, kept squared (the value before var.sqrt()): the sum of
\* (v - mean)^2 over the values, divided by values.len()
std_dev(values, m) ==
    <<SumSeq([i \in DOMAIN values |->
                (values[i] * m[2] - m[1]) * (values[i] * m[2] - m[1])]),
      m[2] * m[2] * Len(values)>>

\* (c as f64) >= mean_val - exclude_sd * sd_val, that is k*sd >= mean - c.
\* With sd^2 = var[1] / (m[2]^2 * div), multiplying by k[2]*m[2]*sqrt(div):
\*   k[1] * sqrt(var[1]) >= (m[1] - c*m[2]) * k[2] * sqrt(div)
\* decided in integers: the signs first, then the squares.
AtLeastRaw(c, m, var, k) ==
    LET A == (m[1] - c * m[2]) * k[2]
        div == var[2] \div (m[2] * m[2])
        lhs2 == k[1] * k[1] * var[1]
        rhs2 == A * A * div
    IN  IF k[1] >= 0
        THEN A <= 0 \/ lhs2 >= rhs2
        ELSE A <= 0 /\ lhs2 <= rhs2

\* cutoff = (mean_val - exclude_sd * sd_val).max(0.0); c >= cutoff
AtLeastCutoff(c, values, k) ==
    LET m == mean(values)
        var == std_dev(values, m)
    IN  c >= 0 /\ AtLeastRaw(c, m, var, k)

\* cutoff == 0.0: the raw value mean - k*sd is <= 0
CutoffIsZero(values, k) ==
    LET m == mean(values)
    IN  AtLeastRaw(0, m, std_dev(values, m), k)

\* (mutant: only the counts above the cutoff by one or more are kept)
FilteredAboveOnly(values, k) ==
    {i \in DOMAIN values : AtLeastCutoff(values[i] - 1, values, k)}

\* filtered: the (file, count) pairs with count >= cutoff
Filtered(values, k) == {i \in DOMAIN values : AtLeastCutoff(values[i], values, k)}

\* (c as f64) < mean_val - exclude_sd * sd_val, the comparison of the second
\* filter: k[1] * sqrt(var[1]) < (m[1] - c*m[2]) * k[2] * sqrt(div)
BelowRaw(c, m, var, k) ==
    LET A == (m[1] - c * m[2]) * k[2]
        div == var[2] \div (m[2] * m[2])
        lhs2 == k[1] * k[1] * var[1]
        rhs2 == A * A * div
    IN  IF k[1] >= 0
        THEN A > 0 /\ lhs2 < rhs2
        ELSE A > 0 \/ lhs2 > rhs2

\* c < cutoff, cutoff = max(0, raw)
BelowCutoff(c, values, k) ==
    LET m == mean(values)
        var == std_dev(values, m)
    IN  c < 0 \/ BelowRaw(c, m, var, k)

\* excluded: the pairs with count < cutoff
Excluded(values, k) == {i \in DOMAIN values : BelowCutoff(values[i], values, k)}

\* (mutant: the greatest count instead of the least)
MinCountAsMax(values, k) == MaxOf({values[i] : i \in Filtered(values, k)})

\* filtered.iter().map(|(_, c)| *c).min().unwrap()
MinCount(values, k) == MinOf({values[i] : i \in Filtered(values, k)})

\* ------------------------------------------------- paths (std::path::Path)
\* A file name is a sequence of tokens whose concatenation is the name; the
\* tokens are chosen so that two sequences are equal exactly when the names
\* are.  All inputs lie in one directory, which with_file_name keeps.
Names == {<<"x", ".", "bed">>, <<"x", ".", "txt">>, <<"y", ".", "bed">>}

\* Path::file_stem: the name up to its last '.', a leading '.' not counted
file_stem(name) ==
    LET dots == {i \in 2..Len(name) : name[i] = "."}
    IN  IF dots = {} THEN name ELSE SubSeq(name, 1, MaxOf(dots) - 1)

\* Path::with_extension
with_extension(name, ext) == file_stem(name) \o <<".">> \o ext

out_bed(f) == file_stem(f) \o <<"_downsampled", ".", "bed">>
sorted_bed(f) == file_stem(out_bed(f)) \o <<"_sorted", ".", "bed">>
coverage_bed(f) == f \o <<"_50bp", "_counts", ".", "bed">>
bedgraph(f) == f \o <<"_50bp", ".", "bedGraph">>
sorted_bedgraph(f) == f \o <<"_50bp", "_sorted", ".", "bedGraph">>
bigwig(f) == f \o <<"_50bp", ".", "bw">>
tmp_bam(f) == f \o <<"_downsampled", ".", "bam">>
bai_path(f) == with_extension(tmp_bam(f), <<"bam", ".", "bai">>)
bai_path2(f) == with_extension(tmp_bam(f), <<"bai">>)
bamcov_out(f) == f \o <<"_50bp", ".", "bw">>
bins_path == <<"genome_50bp_bins", ".", "bed">>

\* ------------------------------------------------------ the run: inputs
Depths == {0, 2}
\* exclude_sd: the default 1.5, 1/2 and -2 (with the depths of Depths these
\* give every partition: all files kept, some excluded, none kept)
KSet == {<<3, 2>>, <<1, 2>>, <<-2, 1>>}

\* Lists of distinct names.  The order of the list matters to no action (QC
\* takes sums and minima, par_iter hands out any item at any time), so each
\* set of names is listed in one order only.
NameRank(name) == IF name[1] = "y" THEN 3 ELSE IF name[3] = "txt" THEN 2 ELSE 1
Ascending(s) == \A i, j \in DOMAIN s : i < j => NameRank(s[i]) < NameRank(s[j])
FileLists == {s \in UNION {[1..n -> Names] : n \in 0..MaxFiles} : Ascending(s)}

QCIdle ==
    /\ qcCounts = <<>> /\ qcK = <<0, 1>> /\ qcDone = FALSE
    /\ qcFiltered = {} /\ qcExcluded = {} /\ qcMin = -1 /\ qcCutoffZero = FALSE

SampleIdle ==
    /\ sFile = <<>> /\ sTarget = 0 /\ sSample = <<>>
    /\ sPhase = "idle" /\ sOut = <<>> /\ sHeader = <<>>

ChromIdle == sizesLines = <<>> /\ chrom_order = <<>> /\ chromDone = FALSE

FracIdle == fMin = 0 /\ fCount = 0 /\ seed_fraction = <<>> /\ fDone = FALSE

\* The state after Args::parse(): nothing has run.  Only the keep flag of the
\* active mode is drawn; the other one is never read.
Init ==
    /\ input_type \in {"bed", "bam"}
    /\ files \in FileLists
    /\ keep_bedgraph \in BOOLEAN
    /\ keep_tmp_bam \in BOOLEAN
    /\ (input_type = "bed" => ~keep_tmp_bam)
    /\ (input_type = "bam" => ~keep_bedgraph)
    /\ exclude_sd \in KSet
    /\ depth \in [DOMAIN files -> Depths]
    /\ phase = "start"
    /\ exitCode = -1
    /\ filtered = {}
    /\ excluded = {}
    /\ min_count = -1
    /\ fatal = "none"
    /\ pc = [i \in DOMAIN files |-> "Queued"]
    /\ report = [i \in DOMAIN files |-> "none"]
    /\ trace = [i \in DOMAIN files |-> <<>>]
    /\ written = [i \in DOMAIN files |-> {}]
    /\ removeTried = [i \in DOMAIN files |-> {}]
    /\ disk = {}
    /\ QCIdle
    /\ SampleIdle
    /\ ChromIdle
    /\ FracIdle

\* the run's variables while another specification is checked
RunIdle ==
    /\ input_type = "bed" /\ files = <<>> /\ keep_bedgraph = FALSE
    /\ keep_tmp_bam = FALSE /\ exclude_sd = <<3, 2>> /\ depth = <<>>
    /\ phase = "idle" /\ exitCode = -1 /\ filtered = {} /\ excluded = {}
    /\ min_count = -1 /\ fatal = "none" /\ pc = <<>> /\ report = <<>>
    /\ trace = <<>> /\ written = <<>> /\ removeTried = <<>> /\ disk = {}

argVars == <<input_type, files, keep_bedgraph, keep_tmp_bam, exclude_sd, depth>>
taskVars == <<pc, report, trace, written, removeTried>>
qcResult == <<filtered, excluded, min_count>>
idle == <<qcVars, sampleVars, chromVars, fracVars>>
runState == <<phase, exitCode, filtered, excluded, min_count, fatal>>

\* counts_only: the measured depths in command-line order
counts_only == [i \in DOMAIN files |-> depth[i]]

\* ------------------------------------------------- main before the tasks
\* args.files.is_empty(): exit(1)
ExitNoFiles ==
    /\ phase = "start"
    /\ files = <<>>
    /\ phase' = "exited"
    /\ exitCode' = 1
    /\ fatal' = "no_files"
    /\ UNCHANGED <<argVars, qcResult, taskVars, disk, idle>>

\* bed: parse_chrom_order, create_50bp_bins or count_fragments returns Err and
\* `?` returns it from main (exit status 1); create_50bp_bins may have created
\* the bins file by then.  bam: samtools view -c exits non-zero (exit(1)) or
\* cannot be run (expect: panic, exit status 101).
SetupFails ==
    /\ phase = "start"
    /\ files # <<>>
    /\ phase' = "exited"
    /\ fatal' = "setup"
    /\ \/ /\ input_type = "bed"
          /\ exitCode' = 1
          /\ \E binsCreated \in BOOLEAN :
                disk' = IF binsCreated THEN disk \cup {bins_path} ELSE disk
       \/ /\ input_type = "bam"
          /\ exitCode' \in {1, 101}
          /\ disk' = disk
    /\ UNCHANGED <<argVars, qcResult, taskVars, idle>>

\* the bins file exists once create_50bp_bins returned Ok (bed only)
AfterSetup == IF input_type = "bed" THEN disk \cup {bins_path} ELSE disk

\* (mutant: the check of filtered.is_empty() is missing, the run goes on)
ExitNoneIncludedFallsThrough ==
    /\ phase = "start"
    /\ files # <<>>
    /\ Filtered(counts_only, exclude_sd) = {}
    /\ filtered' = {}
    /\ excluded' = Excluded(counts_only, exclude_sd)
    /\ min_count' = 0
    /\ phase' = "tasks"
    /\ disk' = AfterSetup
    /\ UNCHANGED <<argVars, exitCode, fatal, taskVars, idle>>

\* filtered.is_empty(): "No samples pass the QC cutoff", exit(1)
ExitNoneIncluded ==
    /\ phase = "start"
    /\ files # <<>>
    /\ Filtered(counts_only, exclude_sd) = {}
    /\ phase' = "exited"
    /\ exitCode' = 1
    /\ fatal' = "none_pass"
    /\ disk' = AfterSetup
    /\ UNCHANGED <<argVars, qcResult, taskVars, idle>>

\* QC passed: filtered and min_frag_count / min_count are set, par_iter starts
QCPass ==
    /\ phase = "start"
    /\ files # <<>>
    /\ Filtered(counts_only, exclude_sd) # {}
    /\ filtered' = Filtered(counts_only, exclude_sd)
    /\ excluded' = Excluded(counts_only, exclude_sd)
    /\ min_count' = MinCount(counts_only, exclude_sd)
    /\ phase' = "tasks"
    /\ disk' = AfterSetup
    /\ UNCHANGED <<argVars, exitCode, fatal, taskVars, idle>>

\* ------------------------------------------------------ the per-file tasks
\* the items of par_iter(): filtered (bed, line 202), args.files (bam, line 401)
Tasks == IF input_type = "bed" THEN filtered ELSE DOMAIN files

Terminal == {"Done", "Panicked", "Skipped", "Exit"}

\* task i runs `stage` with outcome o: it moves to `next`, finishes its progress
\* bar with `msg` ("none": no message yet) and has created `created`
Advance(i, stage, o, next, msg, created) ==
    /\ pc' = [pc EXCEPT ![i] = next]
    /\ report' = [report EXCEPT ![i] = msg]
    /\ trace' = [trace EXCEPT ![i] = Append(@, <<stage, o>>)]
    /\ written' = [written EXCEPT ![i] = @ \cup created]

\* (mutant of Delegated: a non-zero exit is not looked at, the task goes on)
DelegatedGoesOn(i, stage, inputs, outs, next, failMsg) ==
    \E o \in {"ok", "nonzero", "spawn_err", "create_err"} :
        /\ (o = "ok" => inputs \subseteq disk)
        /\ \/ /\ o = "create_err"
              /\ Advance(i, stage, o, "Panicked", "none", {})
              /\ disk' = disk
           \/ /\ o = "spawn_err"
              /\ Advance(i, stage, o, "Panicked", "none", outs)
              /\ disk' = disk \cup outs
           \/ /\ o \in {"ok", "nonzero"}
              /\ Advance(i, stage, o, next, "none", outs)
              /\ disk' = disk \cup outs
        /\ UNCHANGED <<removeTried, argVars, runState, idle>>

\* a stage `Command::new(..).stdout(File::create(out).unwrap()).status()
\* .expect(..)` followed by `if !status.success() { ..; return; }`:
\*   create_err  File::create fails, unwrap panics
\*   spawn_err   the process cannot be started, expect panics
\*   nonzero     it exits non-zero (it does when an input file is missing)
\*   ok          it exits zero
Delegated(i, stage, inputs, outs, next, failMsg) ==
    \E o \in {"ok", "nonzero", "spawn_err", "create_err"} :
        /\ (o = "ok" => inputs \subseteq disk)
        /\ \/ /\ o = "create_err"
              /\ Advance(i, stage, o, "Panicked", "none", {})
              /\ disk' = disk
           \/ /\ o = "spawn_err"
              /\ Advance(i, stage, o, "Panicked", "none", outs)
              /\ disk' = disk \cup outs
           \/ /\ o = "nonzero"
              /\ Advance(i, stage, o, "Done", failMsg, outs)
              /\ disk' = disk \cup outs
           \/ /\ o = "ok"
              /\ Advance(i, stage, o, next, "none", outs)
              /\ disk' = disk \cup outs
        /\ UNCHANGED <<removeTried, argVars, runState, idle>>

Running(i, at) ==
    /\ phase = "tasks"
    /\ i \in Tasks
    /\ pc[i] = at

\* (mutant: the keep flag is not looked at)
cleanup_always(keep, intermediates) == intermediates

\* `if !args.keep_bedgraph { remove_file(..) .. }` (lines 338..344; bam: 487..493):
\* the paths remove_file is called on
cleanup(keep, intermediates) == IF keep THEN {} ELSE intermediates

\* ---- bed (lines 202..349)
\* reservoir_sample(file_path, min_frag_count): Ok, or Err ("Sampling failed")
ReservoirSample(i) ==
    /\ Running(i, "Queued")
    /\ input_type = "bed"
    /\ \E o \in {"ok", "err"} :
          IF o = "ok"
          THEN Advance(i, "reservoir_sample", o, "write_out_bed", "none", {})
          ELSE Advance(i, "reservoir_sample", o, "Done", "Sampling failed", {})
    /\ UNCHANGED <<removeTried, disk, argVars, runState, idle>>

\* retain, sort_by, then File::create(&out_bed).unwrap() and writeln!(..).unwrap();
\* sort_panic: the comparator indexes past the fields of a line (SortPanics)
WriteOutBed(i) ==
    /\ Running(i, "write_out_bed")
    /\ \E o \in {"ok", "sort_panic", "create_err", "write_err"} :
          \/ /\ o = "ok"
             /\ Advance(i, "write_out_bed", o, "bedtools_sort", "none", {out_bed(files[i])})
             /\ disk' = disk \cup {out_bed(files[i])}
          \/ /\ o \in {"sort_panic", "create_err"}
             /\ Advance(i, "write_out_bed", o, "Panicked", "none", {})
             /\ disk' = disk
          \/ /\ o = "write_err"
             /\ Advance(i, "write_out_bed", o, "Panicked", "none", {out_bed(files[i])})
             /\ disk' = disk \cup {out_bed(files[i])}
    /\ UNCHANGED <<removeTried, argVars, runState, idle>>

\* bedtools sort -faidx chrom_sizes -i out_bed > sorted_bed
BedtoolsSort(i) ==
    /\ Running(i, "bedtools_sort")
    /\ Delegated(i, "bedtools_sort", {out_bed(files[i])}, {sorted_bed(files[i])},
                 "bedtools_coverage", "Sort failed")

\* bedtools coverage -a bins -b sorted_bed -counts > coverage_bed
BedtoolsCoverage(i) ==
    /\ Running(i, "bedtools_coverage")
    /\ Delegated(i, "bedtools_coverage", {bins_path, sorted_bed(files[i])},
                 {coverage_bed(files[i])}, "awk", "Coverage failed")

\* awk < coverage_bed > bedgraph; File::open(&coverage_bed).unwrap() panics
\* when coverage_bed is gone
Awk(i) ==
    /\ Running(i, "awk")
    /\ IF coverage_bed(files[i]) \in disk
       THEN Delegated(i, "awk", {coverage_bed(files[i])}, {bedgraph(files[i])},
                      "sort", "awk failed")
       ELSE /\ Advance(i, "awk", "open_err", "Panicked", "none", {})
            /\ UNCHANGED <<removeTried, disk, argVars, runState, idle>>

\* sort --parallel=1 -k1,1 -k2,2n bedgraph > sorted_bedgraph
SortBedGraph(i) ==
    /\ Running(i, "sort")
    /\ Delegated(i, "sort", {bedgraph(files[i])}, {sorted_bedgraph(files[i])},
                 "bedGraphToBigWig", "bedGraph sort failed")

\* the intermediate files of the bed task, in the order lines 339..343 remove them
BedIntermediates(f) ==
    {coverage_bed(f), bedgraph(f), sorted_bedgraph(f), sorted_bed(f), out_bed(f)}

\* (mutant: Completed whatever the status)
BigWigMessageAlways(o) == "Completed"

\* the message after bedGraphToBigWig (lines 328..336)
BigWigMessage(o) == IF o = "ok" THEN "Completed" ELSE "BigWig failed"

\* bedGraphToBigWig sorted_bedgraph chrom_sizes bigwig, the message, and the
\* removal of the intermediates unless keep_bedgraph
BedGraphToBigWig(i) ==
    /\ Running(i, "bedGraphToBigWig")
    /\ \E o \in {"ok", "nonzero", "spawn_err"} :
          /\ (o = "ok" => sorted_bedgraph(files[i]) \in disk)
          /\ \/ /\ o = "spawn_err"
                /\ Advance(i, "bedGraphToBigWig", o, "Panicked", "none", {})
                /\ UNCHANGED <<disk, removeTried>>
             \/ /\ o # "spawn_err"
                /\ LET made == IF o = "ok" THEN {bigwig(files[i])} ELSE {}
                       gone == cleanup(keep_bedgraph, BedIntermediates(files[i]))
                   IN  /\ Advance(i, "bedGraphToBigWig", o, "Done", BigWigMessage(o), made)
                       /\ removeTried' = [removeTried EXCEPT ![i] = @ \cup gone]
                       /\ disk' = (disk \cup made) \ gone
    /\ UNCHANGED <<argVars, runState, idle>>

\* ---- bam (lines 401..494)
\* samtools view -c again, its status not looked at: the count parses, or the
\* output does not parse (unwrap_or(0.0)), or samtools cannot be run (expect
\* panics); `if sample_count < min_count as f64 { return; }`
SamtoolsCount(i) ==
    /\ Running(i, "Queued")
    /\ input_type = "bam"
    /\ \E o \in {"ok", "unparsed", "spawn_err"} :
          LET sample_count == IF o = "ok" THEN depth[i] ELSE 0
          IN  IF o = "spawn_err"
              THEN Advance(i, "samtools_count", o, "Panicked", "none", {})
              ELSE IF sample_count < min_count
              THEN Advance(i, "samtools_count", o, "Skipped", "none", {})
              ELSE Advance(i, "samtools_count", o, "samtools_view", "none", {})
    /\ UNCHANGED <<removeTried, disk, argVars, runState, idle>>

\* samtools view -b -s seed_fraction .. file > tmp_bam
SamtoolsView(i) ==
    /\ Running(i, "samtools_view")
    /\ Delegated(i, "samtools_view", {}, {tmp_bam(files[i])}, "samtools_index", "Failed")

\* samtools index tmp_bam: writes tmp_bam + ".bai" when it succeeds
SamtoolsIndex(i) ==
    /\ Running(i, "samtools_index")
    /\ \E o \in {"ok", "nonzero", "spawn_err"} :
          /\ (o = "ok" => tmp_bam(files[i]) \in disk)
          /\ \/ /\ o = "spawn_err"
                /\ Advance(i, "samtools_index", o, "Panicked", "none", {})
                /\ disk' = disk
             \/ /\ o = "nonzero"
                /\ Advance(i, "samtools_index", o, "Done", "Failed", {})
                /\ disk' = disk
             \/ /\ o = "ok"
                /\ Advance(i, "samtools_index", o, "bamCoverage", "none", {bai_path(files[i])})
                /\ disk' = disk \cup {bai_path(files[i])}
    /\ UNCHANGED <<removeTried, argVars, runState, idle>>

\* the temporary files of the bam task (lines 488..492)
BamIntermediates(f) == {tmp_bam(f), bai_path(f), bai_path2(f)}

\* the message after bamCoverage (lines 479..485)
BamCovMessage(o) == IF o = "ok" THEN "Completed" ELSE "Failed"

\* bamCoverage -b tmp_bam -o bamcov_out: when it cannot be run the closure
\* calls std::process::exit(1); otherwise the message and the removal of the
\* temporary files unless keep_tmp_bam
BamCoverage(i) ==
    /\ Running(i, "bamCoverage")
    /\ \E o \in {"ok", "nonzero", "spawn_err"} :
          /\ (o = "ok" => {tmp_bam(files[i]), bai_path(files[i])} \subseteq disk)
          /\ \/ /\ o = "spawn_err"
                /\ Advance(i, "bamCoverage", o, "Exit", "none", {})
                /\ phase' = "exited"
                /\ exitCode' = 1
                /\ fatal' = "bamCoverage"
                /\ UNCHANGED <<disk, removeTried>>
             \/ /\ o # "spawn_err"
                /\ LET made == IF o = "ok" THEN {bamcov_out(files[i])} ELSE {}
                       gone == cleanup(keep_tmp_bam, BamIntermediates(files[i]))
                   IN  /\ Advance(i, "bamCoverage", o, "Done", BamCovMessage(o), made)
                       /\ removeTried' = [removeTried EXCEPT ![i] = @ \cup gone]
                       /\ disk' = (disk \cup made) \ gone
                /\ UNCHANGED <<phase, exitCode, fatal>>
    /\ UNCHANGED <<argVars, qcResult, idle>>

\* ---- rayon: a panic in a closure unwinds the job that runs it; the jobs of
\* the other items go on and for_each resumes the panic in main once they are
\* done (exit status 101).  Each item is a job of its own here: a job holds
\* several items only when the list is longer than the pool splits it, and
\* then the items after a panicking one in the same job are not run at all.
Panicked == \E i \in DOMAIN files : pc[i] = "Panicked"

\* for_each returns (or resumes a panic) and main returns Ok(()) (line 498)
Return ==
    /\ phase = "tasks"
    /\ \A i \in Tasks : pc[i] \in Terminal
    /\ phase' = "exited"
    /\ exitCode' = IF Panicked THEN 101 ELSE 0
    /\ fatal' = IF Panicked THEN "panic" ELSE "none"
    /\ UNCHANGED <<argVars, qcResult, taskVars, disk, idle>>

Next ==
    \/ ExitNoFiles
    \/ SetupFails
    \/ ExitNoneIncluded
    \/ QCPass
    \/ \E i \in DOMAIN files : ReservoirSample(i)
    \/ \E i \in DOMAIN files : WriteOutBed(i)
    \/ \E i \in DOMAIN files : BedtoolsSort(i)
    \/ \E i \in DOMAIN files : BedtoolsCoverage(i)
    \/ \E i \in DOMAIN files : Awk(i)
    \/ \E i \in DOMAIN files : SortBedGraph(i)
    \/ \E i \in DOMAIN files : BedGraphToBigWig(i)
    \/ \E i \in DOMAIN files : SamtoolsCount(i)
    \/ \E i \in DOMAIN files : SamtoolsView(i)
    \/ \E i \in DOMAIN files : SamtoolsIndex(i)
    \/ \E i \in DOMAIN files : BamCoverage(i)
    \/ Return

Spec == Init /\ [][Next]_vars

\* The pool runs every job it was given and every delegated process exits:
\* some step is taken as long as one is possible.
SpecFair == Spec /\ WF_vars(Next)

\* ============================================================== SpecQC
\* The QC block on its own (lines 173..198, the same code again at 371..396),
\* on lists of depths that hold the scenarios of the specification.
QCDepths == {0, 1, 10, 100}
QCKs == {<<3, 2>>, <<1, 10>>, <<0, 1>>, <<-1, 1>>}
DepthLists == UNION {[1..n -> QCDepths] : n \in 1..MaxQCFiles}

InitQC ==
    /\ qcCounts \in DepthLists
    /\ qcK \in QCKs
    /\ qcDone = FALSE
    /\ qcFiltered = {} /\ qcExcluded = {} /\ qcMin = -1 /\ qcCutoffZero = FALSE
    /\ RunIdle
    /\ SampleIdle
    /\ ChromIdle
    /\ FracIdle

\* mean, std_dev, cutoff, filtered; filtered.is_empty(): exit(1)
QCBlockExit ==
    /\ ~qcDone
    /\ Filtered(qcCounts, qcK) = {}
    /\ qcDone' = TRUE
    /\ qcCutoffZero' = CutoffIsZero(qcCounts, qcK)
    /\ UNCHANGED <<qcCounts, qcK, qcFiltered, qcExcluded, qcMin, runVars, sampleVars, chromVars, fracVars>>

\* mean, std_dev, cutoff, filtered, excluded and the minimum over filtered
QCBlockPass ==
    /\ ~qcDone
    /\ Filtered(qcCounts, qcK) # {}
    /\ qcDone' = TRUE
    /\ qcCutoffZero' = CutoffIsZero(qcCounts, qcK)
    /\ qcFiltered' = Filtered(qcCounts, qcK)
    /\ qcExcluded' = Excluded(qcCounts, qcK)
    /\ qcMin' = MinCount(qcCounts, qcK)
    /\ UNCHANGED <<qcCounts, qcK, runVars, sampleVars, chromVars, fracVars>>

NextQC == QCBlockExit \/ QCBlockPass

SpecQC == InitQC /\ [][NextQC]_vars

\* ======================================================== SpecFraction
\* The -s argument of samtools view (lines 424..425) for a task that got past
\* `if sample_count < min_count as f64 { return; }`.

\* fraction = (min_count as f64 / sample_count).min(1.0), as <<num, den>>;
\* 0.0 / 0.0 is NaN and NaN.min(1.0) is 1.0
fraction(mincount, samplecount) ==
    IF samplecount = 0
    THEN <<1, 1>>
    ELSE IF mincount > samplecount THEN <<1, 1>> ELSE <<mincount, samplecount>>

\* (fraction * 1000.0) as u32: the cast truncates
thousandths(f) == (f[1] * 1000) \div f[2]

\* the decimal digits of n, most significant first
RECURSIVE Digits(_)
Digits(n) == IF n < 10 THEN <<n>> ELSE Append(Digits(n \div 10), n % 10)

\* format!("{:03}", n): zero-padded to a width of at least three
format03(n) ==
    LET d == Digits(n)
    IN  IF Len(d) >= 3 THEN d ELSE [i \in 1..(3 - Len(d)) |-> 0] \o d

InitFraction ==
    /\ fMin \in 0..MaxCount
    /\ fCount \in fMin..MaxCount
    /\ seed_fraction = <<>>
    /\ fDone = FALSE
    /\ RunIdle
    /\ QCIdle
    /\ SampleIdle
    /\ ChromIdle

\* let seed_fraction = format!("42.{:03}", (fraction * 1000.0) as u32)
BuildSeedFraction ==
    /\ ~fDone
    /\ seed_fraction' = format03(thousandths(fraction(fMin, fCount)))
    /\ fDone' = TRUE
    /\ UNCHANGED <<fMin, fCount, runVars, qcVars, sampleVars, chromVars>>

NextFraction == BuildSeedFraction

SpecFraction == InitFraction /\ [][NextFraction]_vars

\* =========================================================== SpecChrom
\* parse_chrom_order (lines 67..80).  A line of the sizes file is the name
\* split_whitespace().next() yields, or "" when line.trim().is_empty().
SizesKinds == {"", "chr1", "chr2", "chr3"}

SizesFiles == UNION {[1..n -> SizesKinds] : n \in 0..MaxSizesLines}

\* (mutant: a name already in the map keeps its value)
insert_if_absent(map, k, v) ==
    [x \in DOMAIN map \cup {k} |-> IF x \in DOMAIN map THEN map[x] ELSE v]

\* HashMap::insert: the value of an existing key is replaced
insert(map, k, v) ==
    [x \in DOMAIN map \cup {k} |-> IF x = k THEN v ELSE map[x]]

\* the loop over reader.lines().enumerate(): i is the index of the line in
\* the file, blank lines included (lines[i + 1] here)
RECURSIVE ParseLoop(_, _, _)
ParseLoop(map, i, lines) ==
    IF i = Len(lines)
    THEN map
    ELSE IF lines[i + 1] = ""
    THEN ParseLoop(map, i + 1, lines)
    ELSE ParseLoop(insert(map, lines[i + 1], i), i + 1, lines)

parse_chrom_order(lines) == ParseLoop(<<>>, 0, lines)

InitChrom ==
    /\ sizesLines \in SizesFiles
    /\ chrom_order = <<>>
    /\ chromDone = FALSE
    /\ RunIdle
    /\ QCIdle
    /\ SampleIdle
    /\ FracIdle

\* let chrom_order = Arc::new(parse_chrom_order(&chrom_sizes)?)
ParseChromOrder ==
    /\ ~chromDone
    /\ chrom_order' = parse_chrom_order(sizesLines)
    /\ chromDone' = TRUE
    /\ UNCHANGED <<sizesLines, runVars, qcVars, sampleVars, fracVars>>

NextChrom == ParseChromOrder

SpecChrom == InitChrom /\ [][NextChrom]_vars

\* ========================================================== SpecSample
\* One fragment file through reservoir_sample, retain, sort_by and the write
\* of out_bed.  A line is [chrom, rest]: the text before the first tab and the
\* fields after it, of which only the first is read: a number, or -1 for text
\* that does not parse as u32.  The blank line has chrom "" and no field.
\* trail says that whitespace follows the last field, before the newline.
Line(c, r) == [chrom |-> c, rest |-> r, trail |-> FALSE]

LineKinds == {Line("chr1", <<5>>), Line("chr1", <<>>), Line("chrU", <<5>>), Line("", <<>>)}

\* the first line: any of these, with or without trailing whitespace
HeaderKinds == {[l EXCEPT !.trail = t] : l \in LineKinds, t \in BOOLEAN}

\* chrom_order as parse_chrom_order returns it for the sizes "chr1", "chr2"
order_map == parse_chrom_order(<<"chr1", "chr2">>)

\* the files of at most MaxLines lines, from the empty one on
Bodies(kinds) == UNION {[1..n -> kinds] : n \in 0..(MaxLines - 1)}
FragmentFiles == {<<>>} \cup {<<h>> \o b : h \in HeaderKinds, b \in Bodies(LineKinds)}

\* the lines after the first one (reader.lines() after read_line)
NData(file) == IF Len(file) = 0 THEN 0 ELSE Len(file) - 1

\* the p-th data line
DataLine(file, p) == file[p + 1]

\* (mutant: the first line is counted too)
count_fragments_all(file) ==
    Cardinality({p \in 0..NData(file) : file # <<>> /\ DataLine(file, p).chrom # ""})

\* fn count_fragments: the non-blank lines, the first line skipped
count_fragments(file) ==
    Cardinality({p \in 1..NData(file) : DataLine(file, p).chrom # ""})

\* (mutant: pushes one line too many)
reservoir_step_off_by_one(sample, i, line, mincount, j) ==
    IF i <= mincount
    THEN Append(sample, line)
    ELSE IF j < mincount THEN [sample EXCEPT ![j + 1] = line] ELSE sample

\* (mutant: always overwrites the first slot)
reservoir_step_first_slot(sample, i, line, mincount, j) ==
    IF i < mincount
    THEN Append(sample, line)
    ELSE IF j < mincount THEN [sample EXCEPT ![1] = line] ELSE sample

\* one turn of the loop of reservoir_sample, j the value of
\* random::<usize>() % (i + 1) (lines 110..117), mincount the parameter
\* min_count; slot j is sample[j + 1] here
reservoir_step(sample, i, line, mincount, j) ==
    IF i < mincount
    THEN Append(sample, line)
    ELSE IF j < mincount THEN [sample EXCEPT ![j + 1] = line] ELSE sample

\* the loop over the m data lines, draws[i + 1] the draw of turn i
RECURSIVE ReservoirLoop(_, _, _, _, _)
ReservoirLoop(sample, i, m, mincount, draws) ==
    IF i = m
    THEN sample
    ELSE ReservoirLoop(reservoir_step(sample, i, i + 1, mincount, draws[i + 1]),
                       i + 1, m, mincount, draws)

\* every sequence of draws of m turns: turn i draws in 0..i, and there is no
\* draw while i < mincount (0 stands for it); draws[i + 1] is the draw of turn i
RECURSIVE DrawSeqs(_, _)
DrawSeqs(m, mincount) ==
    IF m = 0
    THEN {<<>>}
    ELSE {Append(d, j) : d \in DrawSeqs(m - 1, mincount),
                         j \in IF m - 1 < mincount THEN {0} ELSE 0..(m - 1)}

\* str::trim_end: the trailing whitespace goes
trim_end(line) == [line EXCEPT !.trail = FALSE]

\* header of reservoir_sample: read_line then trim_end (lines 103..105); an
\* empty file leaves the empty string
header(file) == IF file = <<>> THEN Line("", <<>>) ELSE trim_end(file[1])

\* fn reservoir_sample: the reservoir, as positions of data lines
reservoir_sample(file, mincount, draws) ==
    ReservoirLoop(<<>>, 0, NData(file), mincount, draws)

\* (mutant: keeps every sampled line)
retain_all(file, sample) == sample

\* (mutant: keeps the lines whose chromosome is absent)
retain_absent(file, sample) ==
    SelectSeq(sample, LAMBDA p : DataLine(file, p).chrom \notin DOMAIN order_map)

\* sample.retain(|line| order_map.contains_key(chrom)) (lines 219..222)
retain(file, sample) ==
    SelectSeq(sample, LAMBDA p : DataLine(file, p).chrom \in DOMAIN order_map)

\* a_parts[1].parse::<u32>().unwrap_or(0); 0 too where the sort never looks
start_of(line) == IF line.rest # <<>> /\ line.rest[1] >= 0 THEN line.rest[1] ELSE 0

\* the comparator of sort_by answers Less (lines 224..235)
CmpLess(a, b) ==
    LET a_rank == order_map[a.chrom]
        b_rank == order_map[b.chrom]
    IN  IF a_rank = b_rank THEN start_of(a) < start_of(b) ELSE a_rank < b_rank

\* a_parts[1] / b_parts[1] is out of bounds: the comparator reads it for two
\* lines of one rank, and a sort compares every line with a neighbour of its
\* rank when there is one
SortPanics(file, sample) ==
    \E n1, n2 \in DOMAIN sample :
        /\ n1 # n2
        /\ order_map[DataLine(file, sample[n1]).chrom]
              = order_map[DataLine(file, sample[n2]).chrom]
        /\ DataLine(file, sample[n1]).rest = <<>>

\* sort_by is stable: p goes before the first element it is Less than
InsertStable(file, sorted, p) ==
    LET later == {n \in DOMAIN sorted : CmpLess(DataLine(file, p), DataLine(file, sorted[n]))}
        at == IF later = {} THEN Len(sorted) + 1 ELSE MinOf(later)
    IN  SubSeq(sorted, 1, at - 1) \o <<p>> \o SubSeq(sorted, at, Len(sorted))

RECURSIVE sort_by(_, _)
sort_by(file, sample) ==
    IF sample = <<>>
    THEN <<>>
    ELSE InsertStable(file, sort_by(file, SubSeq(sample, 1, Len(sample) - 1)),
                      sample[Len(sample)])

InitSample ==
    /\ sFile \in FragmentFiles
    /\ sTarget \in 0..MaxTarget
    /\ sSample = <<>>
    /\ sPhase = "start"
    /\ sOut = <<>>
    /\ sHeader = <<>>
    /\ RunIdle
    /\ QCIdle
    /\ ChromIdle
    /\ FracIdle

\* let Ok((header, mut sample)) = reservoir_sample(file_path, min_frag_count)
SampleFile ==
    /\ sPhase = "start"
    /\ \E draws \in DrawSeqs(NData(sFile), sTarget) :
          sSample' = reservoir_sample(sFile, sTarget, draws)
    /\ sHeader' = header(sFile)
    /\ sPhase' = "sampled"
    /\ UNCHANGED <<sFile, sTarget, sOut, runVars, qcVars, chromVars, fracVars>>

\* retain, sort_by, then the header and the sample are written (lines
\* 218..249); nothing is written when the comparator panics
RetainSortWrite ==
    /\ sPhase = "sampled"
    /\ LET kept == retain(sFile, sSample)
       IN  IF SortPanics(sFile, kept)
           THEN sPhase' = "panicked" /\ sOut' = sOut
           ELSE sPhase' = "written" /\ sOut' = <<0>> \o sort_by(sFile, kept)
    /\ UNCHANGED <<sFile, sTarget, sSample, sHeader, runVars, qcVars, chromVars, fracVars>>

NextSample == SampleFile \/ RetainSortWrite

SpecSample == InitSample /\ [][NextSample]_vars

\* ============================================================== SpecSort
\* The same steps on files whose data lines differ in rank and in start
\* coordinate: starts 0, 3 and 5, a start that does not parse (-1), no start
\* field at all, two ranks and a chromosome that is not in the sizes file.
SortLineKinds == {Line("chr1", <<5>>), Line("chr1", <<3>>), Line("chr1", <<0>>),
                  Line("chr1", <<-1>>), Line("chr1", <<>>),
                  Line("chr2", <<3>>), Line("chrU", <<5>>)}

SortFiles == {<<Line("chr1", <<5>>)>> \o b : b \in Bodies(SortLineKinds)}

InitSort ==
    /\ sFile \in SortFiles
    /\ sTarget \in 0..MaxTarget
    /\ sSample = <<>>
    /\ sPhase = "start"
    /\ sOut = <<>>
    /\ sHeader = <<>>
    /\ RunIdle
    /\ QCIdle
    /\ ChromIdle
    /\ FracIdle

SpecSort == InitSort /\ [][NextSample]_vars

\* ================================================================ claims
\* ---- notions the claims use
FailedMessages == {"Sampling failed", "Sort failed", "Coverage failed", "awk failed",
                   "bedGraph sort failed", "BigWig failed", "Failed"}

\* the task ended and reported a failure
TaskFailed(i) == pc[i] = "Done" /\ report[i] \in FailedMessages

\* the retain option of the active mode
Retain == IF input_type = "bed" THEN keep_bedgraph ELSE keep_tmp_bam

Intermediates(i) ==
    IF input_type = "bed" THEN BedIntermediates(files[i]) ELSE BamIntermediates(files[i])

\* some stage of task i did not succeed
HitFailure(i) == \E n \in DOMAIN trace[i] : trace[i][n][2] # "ok"

\* every path task i created or called remove_file on
Touched(i) == written[i] \cup removeTried[i]

\* the stages of a task from sampling to the track encoder
BedStages == <<"reservoir_sample", "write_out_bed", "bedtools_sort", "bedtools_coverage",
               "awk", "sort", "bedGraphToBigWig">>
BamStages == <<"samtools_view", "samtools_index", "bamCoverage">>

\* population statistics written from their definition: with n depths of sum S
\* the variance is (n * sum of d^2 - S^2) / n^2, so d >= mean - k * stddev is
\*   k[2] * (n*d - S) + k[1] * sqrt(n * sum d^2 - S^2) >= 0
RefAtLeastCutoff(d, ds, k) ==
    LET n == Len(ds)
        S == SumSeq(ds)
        Q == n * SumSeq([i \in DOMAIN ds |-> ds[i] * ds[i]]) - S * S
        B == k[2] * (n * d - S)
    IN  /\ d >= 0
        /\ IF k[1] >= 0
           THEN B >= 0 \/ k[1] * k[1] * Q >= B * B
           ELSE B >= 0 /\ k[1] * k[1] * Q <= B * B

\* C1: a task that ended Failed with the retain option off has had removal
\* attempted for every intermediate artifact it wrote.
CleanupAfterFailure ==
    \A i \in DOMAIN files :
        (TaskFailed(i) /\ ~Retain) =>
            (written[i] \cap Intermediates(i)) \subseteq removeTried[i]

\* C2: a failure in one task never aborts or prevents the task of another
\* file: no sibling is cut off before it started or between two of its stages.
TasksIndependent ==
    \A a, b \in Tasks :
        (a # b /\ HitFailure(a)) => ~(phase = "exited" /\ pc[b] \notin Terminal)

\* C3: no path created or removed by one file's task is an input of, or is
\* created or removed by, the task of another file.
NoArtifactCollision ==
    \A a, b \in DOMAIN files :
        a # b => Touched(a) \cap (Touched(b) \cup {files[b]}) = {}

\* C4: a task reports Completed only when every stage from sampling to the
\* track encoder ran and succeeded, and then its coverage track was written.
\* (The stages are those of lines 214..336 and 429..485; the re-count of the
\* bam task, lines 403..411, comes before them.)
CompletedOnlyIfAllOk ==
    \A i \in DOMAIN files :
        report[i] = "Completed" =>
            LET stages == IF input_type = "bed" THEN BedStages ELSE BamStages
                ran == SelectSeq(trace[i], LAMBDA e : e[1] # "samtools_count")
            IN  /\ ran = [n \in DOMAIN stages |-> <<stages[n], "ok">>]
                /\ (IF input_type = "bed" THEN bigwig(files[i]) ELSE bamcov_out(files[i]))
                      \in written[i]

\* C4 witness: one task completed while another one failed
CompletedBesideFailed ==
    \E i, j \in DOMAIN files : report[i] = "Completed" /\ TaskFailed(j)

\* C5: once QC has passed, the run ends with exit status 0 whatever happened
\* in the tasks.
ExitsSuccessfully ==
    (phase = "exited" /\ filtered # {}) => exitCode = 0

\* C9: after QC, filtered and excluded partition the files, filtered is the
\* files at or above the cutoff, min_count is the least depth in filtered (so
\* it is at most the depth of every file in filtered) and every excluded file
\* is below the cutoff.
QCPartition ==
    filtered # {} =>
        /\ filtered \cup excluded = DOMAIN files
        /\ filtered \cap excluded = {}
        /\ filtered = {i \in DOMAIN files : RefAtLeastCutoff(depth[i], counts_only, exclude_sd)}
        /\ \E i \in filtered : min_count = depth[i]
        /\ \A i \in filtered : min_count <= depth[i]
        /\ \A e \in excluded : ~RefAtLeastCutoff(depth[e], counts_only, exclude_sd)

\* C9 witness: QC kept files of different depths / excluded a file
QCKeptUnequal ==
    /\ phase = "tasks"
    /\ \E i, j \in filtered : depth[i] < depth[j]

\* C10: the partition uses cutoff = max(0, mean - k * stddev) with the
\* population standard deviation; depths 10,10,10,1 with k = 0.1 exclude the
\* depth-1 file alone and give target 10; depths 100,100,1 with k = 1.5 give
\* cutoff 0, every file kept and target 1.
CutoffFormula ==
    qcDone =>
        /\ qcCutoffZero = RefAtLeastCutoff(0, qcCounts, qcK)
        /\ qcFiltered = {i \in DOMAIN qcCounts : RefAtLeastCutoff(qcCounts[i], qcCounts, qcK)}
        /\ (qcFiltered # {} =>
              qcExcluded = {i \in DOMAIN qcCounts :
                              ~RefAtLeastCutoff(qcCounts[i], qcCounts, qcK)})
        /\ (qcCounts = <<10, 10, 10, 1>> /\ qcK = <<1, 10>> =>
              qcFiltered = {1, 2, 3} /\ qcExcluded = {4} /\ qcMin = 10)
        /\ (qcCounts = <<100, 100, 1>> /\ qcK = <<3, 2>> =>
              qcCutoffZero /\ qcFiltered = {1, 2, 3} /\ qcExcluded = {} /\ qcMin = 1)

\* C10 witness: the QC block ran on depths 10,10,10,1 with k = 0.1
ScenarioDRan ==
    qcDone /\ qcCounts = <<10, 10, 10, 1>> /\ qcK = <<1, 10>> /\ qcExcluded = {4}

\* ---- notions of the sampling claims
AllKnown(file) ==
    \A p \in 1..NData(file) : DataLine(file, p).chrom \in DOMAIN order_map

\* the data records of the written file
Records == Len(sOut) - 1

\* C6 as stated: the output written for an included file (target <= depth)
\* holds exactly target-depth data records.
ExactlyTargetRecords ==
    (sPhase = "written" /\ sTarget <= count_fragments(sFile)) => Records = sTarget

\* C6 amended: the output holds the sampled records whose chromosome is in
\* ChromosomeOrder: at most target-depth records, and exactly target-depth
\* when every data line of the file names a known chromosome.
AtMostTargetRecords ==
    (sPhase = "written" /\ sTarget <= count_fragments(sFile)) =>
        /\ Records <= sTarget
        /\ Records = Cardinality({n \in DOMAIN sSample :
                                    DataLine(sFile, sSample[n]).chrom \in DOMAIN order_map})
        /\ (AllKnown(sFile) => Records = sTarget)

\* C6 witness: an included file written with fewer records than the target,
\* a sampled line having been dropped
WrittenBelowTarget ==
    /\ sPhase = "written"
    /\ sTarget <= count_fragments(sFile)
    /\ sTarget >= 2
    /\ Records < sTarget

\* C7: the reservoir holds exactly min(target, m) lines, each a data line of
\* the file and none twice; with m < target it holds all m lines in file order.
ReservoirExact ==
    sPhase \in {"sampled", "written", "panicked"} =>
        LET m == NData(sFile)
        IN  /\ Len(sSample) = IF sTarget < m THEN sTarget ELSE m
            /\ \A n \in DOMAIN sSample : sSample[n] \in 1..m
            /\ \A n1, n2 \in DOMAIN sSample : n1 # n2 => sSample[n1] # sSample[n2]
            /\ (m < sTarget => sSample = [p \in 1..m |-> p])

\* C7 witness: a full reservoir in which a later line replaced an earlier one
ReservoirReplaced ==
    /\ sPhase = "sampled"
    /\ sTarget >= 2
    /\ NData(sFile) > sTarget
    /\ sSample[1] # 1

\* C8: with m >= target and every draw of turn i uniform over 0..i, each data
\* line is kept with probability target / m: of all the sequences of draws,
\* the share target / m keeps it.
ReservoirUniform ==
    (sPhase = "sampled" /\ NData(sFile) >= sTarget) =>
        LET m == NData(sFile)
            outcomes == DrawSeqs(m, sTarget)
            kept == [d \in outcomes |-> Range(ReservoirLoop(<<>>, 0, m, sTarget, d))]
        IN  \A p \in 1..m :
                Cardinality({d \in outcomes : p \in kept[d]}) * m
                    = sTarget * Cardinality(outcomes)

\* C8 witness: a sample taken from a file that holds two lines more, so that
\* two turns of the loop drew
SampledFromMore ==
    /\ sPhase = "sampled"
    /\ sTarget >= 1
    /\ NData(sFile) >= sTarget + 2
    /\ sSample # [p \in 1..sTarget |-> p]

\* ---- C11
\* no file is at or above the cutoff (the list may be empty)
NoneIncluded ==
    \A i \in DOMAIN files : ~RefAtLeastCutoff(depth[i], counts_only, exclude_sd)

\* C11: with an empty file list or no file passing QC the run ends with a
\* non-zero status and every task is still Queued, no stage invoked and
\* nothing written by it; the tasks never start then; with an empty list
\* nothing at all is on disk.
NoTaskOnFatal ==
    /\ NoneIncluded =>
          /\ phase # "tasks"
          /\ \A i \in DOMAIN files :
                pc[i] = "Queued" /\ trace[i] = <<>> /\ written[i] = {}
          /\ (phase = "exited" => exitCode > 0)
    /\ (files = <<>> /\ phase = "exited") => (fatal = "no_files" /\ disk = {})
    /\ (phase = "exited" /\ fatal = "none" /\ exitCode = 0) => ~NoneIncluded

\* C11 witness: two files, none passes QC, the run has exited on that
ExitedNonePass ==
    /\ phase = "exited"
    /\ fatal = "none_pass"
    /\ Len(files) >= 2
    /\ exitCode = 1

\* ---- notions of the output claims
\* the data records written, as positions of data lines
OutRecords == SubSeq(sOut, 2, Len(sOut))

\* the text of the n-th line written
OutText(n) == IF sOut[n] = 0 THEN sHeader ELSE DataLine(sFile, sOut[n])

Known(p) == DataLine(sFile, p).chrom \in DOMAIN order_map

\* the start coordinate as the specification reads it: 0 when the field is
\* missing or is not a number
RefStart(p) ==
    LET r == DataLine(sFile, p).rest
    IN  IF r = <<>> THEN 0 ELSE IF r[1] < 0 THEN 0 ELSE r[1]

RefRank(p) == order_map[DataLine(sFile, p).chrom]

\* where the sampling step left line p
SlotOf(p) == CHOOSE n \in DOMAIN sSample : sSample[n] = p

\* the records written are in order: by rank, then by start, then as sampled
OutputSorted ==
    \A n1, n2 \in DOMAIN OutRecords :
        n1 < n2 =>
            LET a == OutRecords[n1]
                b == OutRecords[n2]
            IN  \/ RefRank(a) < RefRank(b)
                \/ RefRank(a) = RefRank(b) /\ RefStart(a) < RefStart(b)
                \/ /\ RefRank(a) = RefRank(b)
                   /\ RefStart(a) = RefStart(b)
                   /\ SlotOf(a) < SlotOf(b)

\* C12: the ordering step completes for every sample and leaves the retained
\* records sorted by rank, then by start coordinate (0 when it is missing or
\* not a number), records equal in both in their order of the sampling step.
SortCompletesSorted ==
    sPhase \in {"written", "panicked"} => (sPhase = "written" /\ OutputSorted)

\* C18: of the sampled records, exactly those whose chromosome is in
\* ChromosomeOrder are written to the downsampled output, each once.
KnownWritten ==
    sPhase = "written" =>
        /\ \A n \in DOMAIN OutRecords : Known(OutRecords[n])
        /\ \A n \in DOMAIN sSample : Known(sSample[n]) => sSample[n] \in Range(OutRecords)
        /\ Range(OutRecords) \subseteq Range(sSample)
        /\ Cardinality(Range(OutRecords)) = Len(OutRecords)

\* C18 witness: a sample holding a record of a known chromosome and one of
\* an absent chromosome has been written
MixedSampleWritten ==
    /\ sPhase = "written"
    /\ \E n \in DOMAIN sSample : Known(sSample[n])
    /\ \E n \in DOMAIN sSample : ~Known(sSample[n]) /\ DataLine(sFile, sSample[n]).chrom # ""
    /\ Len(OutRecords) >= 1

\* C20 as stated: the first line is no part of the depth, of the reservoir or
\* of the filtered and sorted records, and it is the first line written,
\* character for character.
HeaderVerbatim ==
    (sPhase \in {"sampled", "written", "panicked"} /\ sFile # <<>>) =>
        /\ count_fragments(sFile)
              = Cardinality({p \in 2..Len(sFile) : sFile[p].chrom # ""})
        /\ \A n \in DOMAIN sSample : sSample[n] + 1 \in 2..Len(sFile)
        /\ sPhase = "written" =>
              /\ sOut[1] = 0
              /\ \A n \in DOMAIN OutRecords : OutRecords[n] # 0
              /\ OutText(1) = sFile[1]

\* C20 amended: as above, but the first line is written with its trailing
\* whitespace removed.
HeaderTrimmed ==
    (sPhase \in {"sampled", "written", "panicked"} /\ sFile # <<>>) =>
        /\ count_fragments(sFile)
              = Cardinality({p \in 2..Len(sFile) : sFile[p].chrom # ""})
        /\ \A n \in DOMAIN sSample : sSample[n] + 1 \in 2..Len(sFile)
        /\ sPhase = "written" =>
              /\ sOut[1] = 0
              /\ \A n \in DOMAIN OutRecords : OutRecords[n] # 0
              /\ OutText(1) = [sFile[1] EXCEPT !.trail = FALSE]

\* C20 witness: a first line that names an absent chromosome and ends in
\* whitespace has been written in front of a sampled record
TrailingHeaderWritten ==
    /\ sPhase = "written"
    /\ sFile # <<>>
    /\ sFile[1].chrom = "chrU"
    /\ sFile[1].trail
    /\ Len(OutRecords) >= 1

\* ---- notions of C13
\* the last line of the sizes file that names c
LastLine(c) == MaxOf({n \in DOMAIN sizesLines : sizesLines[n] = c})

\* the non-blank lines before line n
NonBlankBefore(n) == Cardinality({q \in 1..(n - 1) : sizesLines[q] # ""})

NamesListed == {sizesLines[n] : n \in DOMAIN sizesLines} \ {""}

\* C13 as stated: the rank of a name is the number of non-blank lines before
\* its last line; blank lines take no rank.
RankCountsNonBlank ==
    chromDone =>
        /\ DOMAIN chrom_order = NamesListed
        /\ \A c \in NamesListed : chrom_order[c] = NonBlankBefore(LastLine(c))

\* C13 amended: the rank of a name is the 0-based index of its last line
\* among all lines, blank ones counted; two names compare by these ranks as
\* they do by the numbers of non-blank lines before their last lines.
RankIsLineIndex ==
    chromDone =>
        /\ DOMAIN chrom_order = NamesListed
        /\ \A c \in NamesListed : chrom_order[c] = LastLine(c) - 1
        /\ \A c, d \in NamesListed :
              (chrom_order[c] < chrom_order[d])
                  <=> (NonBlankBefore(LastLine(c)) < NonBlankBefore(LastLine(d)))

\* C13 witness: a sizes file with a blank line before a name that occurs
\* twice, another name in between, has been parsed
BlankAndDuplicateParsed ==
    /\ chromDone
    /\ \E n1, n2, n3, n4 \in DOMAIN sizesLines :
          /\ n1 < n2 /\ n2 < n3 /\ n3 < n4
          /\ sizesLines[n1] = ""
          /\ sizesLines[n2] # ""
          /\ sizesLines[n3] \notin {"", sizesLines[n2]}
          /\ sizesLines[n4] = sizesLines[n2]

\* ---- notions of C14
\* the number a sequence of decimal digits writes
RECURSIVE DigitsValue(_)
DigitsValue(d) ==
    IF d = <<>> THEN 0 ELSE 10 * DigitsValue(SubSeq(d, 1, Len(d) - 1)) + d[Len(d)]

RECURSIVE Pow10(_)
Pow10(n) == IF n = 0 THEN 1 ELSE 10 * Pow10(n - 1)

\* the fraction that "42." followed by the digits d denotes: 0.d
EncodedFraction(d) == <<DigitsValue(d), Pow10(Len(d))>>

\* C14: the fraction the -s argument encodes is min(1, target / depth) cut to
\* three decimals, and it is 1.0 for the file whose depth is the target
\* (depth 0, where target / depth is no number, is left aside).
FractionEncoded ==
    (fDone /\ fCount > 0) =>
        LET enc == EncodedFraction(seed_fraction)
            want == (1000 * fMin) \div fCount
        IN  /\ enc[1] * 1000 = want * enc[2]
            /\ (fMin = fCount => enc[1] = enc[2])

\* ---- notions of C15 and C16
\* task i invoked a stage (the re-count of the bam task aside), created or
\* removed a file
Worked(i) ==
    \/ written[i] # {}
    \/ removeTried[i] # {}
    \/ \E n \in DOMAIN trace[i] : trace[i][n][1] # "samtools_count"

\* task i invoked its sampling stage
Sampled(i) == \E n \in DOMAIN trace[i] : trace[i][n][1] # "samtools_count"

\* the task of included file i has left Queued
Started(i) == IF i \in filtered THEN pc[i] # "Queued" ELSE FALSE

\* task i has reported Completed or a failure
Reported(i) ==
    IF i \in DOMAIN files
    THEN report[i] = "Completed" \/ report[i] \in FailedMessages
    ELSE FALSE

\* C15: the files whose task runs stages are exactly the files QC included:
\* no other file is sampled or has an artifact written, and when the run has
\* returned normally every included file has been sampled.
OnlyIncludedProcessed ==
    \A i \in DOMAIN files :
        /\ Worked(i) => i \in filtered
        /\ (phase = "exited" /\ exitCode = 0 /\ i \in filtered) => Sampled(i)

\* C16: every task of an included file that has started ends reported as
\* Completed or as Failed.
EveryTaskReported ==
    \A i \in 1..MaxFiles : Started(i) ~> Reported(i)

\* ---- C17 and C19
\* the last stage task i invoked
LastStage(i) == trace[i][Len(trace[i])][1]

\* C17: with the retain option of the active mode set no task calls
\* remove_file, and every intermediate file a task wrote is on disk.
RetainKeepsAll ==
    Retain =>
        \A i \in DOMAIN files :
            /\ removeTried[i] = {}
            /\ (written[i] \cap Intermediates(i)) \subseteq disk

\* C17 witness: with the retain option set the run is over and a task has
\* gone through its last stage, where the removal would take place
RetainedAfterLastStage ==
    /\ Retain
    /\ phase = "exited"
    /\ \E i \in DOMAIN files :
          /\ pc[i] = "Done"
          /\ trace[i] # <<>>
          /\ LastStage(i) \in {"bedGraphToBigWig", "bamCoverage"}
          /\ written[i] \cap Intermediates(i) # {}

\* C19: the stages of a bed task are invoked in the order of BedStages, each
\* only after all earlier ones succeeded, none after a failed one, and the
\* removal of the intermediates only after the last one was invoked.
StagesInOrder ==
    input_type = "bed" =>
        \A i \in DOMAIN files :
            /\ Len(trace[i]) <= Len(BedStages)
            /\ \A n \in DOMAIN trace[i] :
                  /\ trace[i][n][1] = BedStages[n]
                  /\ (n < Len(trace[i]) => trace[i][n][2] = "ok")
            /\ (removeTried[i] # {} => Len(trace[i]) = Len(BedStages))

\* C19 witness: one bed task went through all stages and removed its
\* intermediates, another one stopped at a failed delegated stage
FullAndCutShort ==
    /\ input_type = "bed"
    /\ \E i, j \in DOMAIN files :
          /\ Len(trace[i]) = Len(BedStages)
          /\ removeTried[i] # {}
          /\ TaskFailed(j)
          /\ Len(trace[j]) \in 3..(Len(BedStages) - 1)

\* ---- C21
\* the files of the greatest depth in the QC list
Deepest == {i \in DOMAIN qcCounts : \A j \in DOMAIN qcCounts : qcCounts[j] <= qcCounts[i]}

\* C21: with a threshold k >= 0 every file of the greatest depth passes QC,
\* so the QC block never ends on an empty filtered list; it ends so only
\* with a negative k.
DeepestPasses ==
    qcDone =>
        /\ (qcK[1] >= 0 => (Deepest \subseteq qcFiltered /\ qcFiltered # {}))
        /\ (qcFiltered = {} => qcK[1] < 0)

\* C21 witness: with k > 0 the QC block kept the deepest file and excluded
\* another one
DeepestKeptOtherExcluded ==
    /\ qcDone
    /\ qcK[1] > 0
    /\ qcExcluded # {}
    /\ Deepest \subseteq qcFiltered

====
